---- MODULE Spec2Model ----
(***************************************************************************)
(* Model of pentf's test loader (src/src/loader.js): importFile,          *)
(* loadSuite (the test/describe registration DSL) and loadTests.          *)
(*                                                                         *)
(* JavaScript runs the continuation of one `await importFile(...)` to     *)
(* completion before another one starts, so at most one loadSuite call    *)
(* is executing at a time (`running`).  The builder callback of a suite   *)
(* file is arbitrary user code: it is modelled as any sequence of calls   *)
(* of test, test.only, test.skip, describe, describe.only, describe.skip  *)
(* and callback returns, one action per call.  describe(...) runs its     *)
(* callback in the middle of its body, so each describe variant is split  *)
(* into the part before `callback()` and the part after it.               *)
(*                                                                         *)
(* Specifications: Spec is the import phase of loadTests with arbitrary    *)
(* builders; SuiteSpec restricts it to one candidate (one loadSuite run),  *)
(* TwiceSpec to two suite files with the same root name, MergeSpec to      *)
(* builders that register outside groups.  LoadSpec is the whole of        *)
(* loadTests, from the globbed candidates through applyTestFilters to the  *)
(* join of the imports, and LiveLoadSpec adds the fairness of the          *)
(* continuations the event loop runs.                                      *)
(***************************************************************************)
EXTENDS Integers, Sequences, FiniteSets, TLC

(* ----------------------------- bounds --------------------------------- *)
\* calls of the registration API (test, test.only, test.skip, describe,
\* describe.only, describe.skip) made by the builders of one loadTests call
MaxCalls == 3

(* --------------------------- input domains ---------------------------- *)
\* absolute paths the glob may yield: [dir, base, ext]
Paths ==
    { [dir |-> "/r/a", base |-> "f", ext |-> ".js"],
      [dir |-> "/r/b", base |-> "f", ext |-> ".mjs"] }

\* config.moduleType as passed by the caller
ModuleTypes == {"undefined", "commonjs", "esm"}

\* the hints loadTests is explored under.  The hint only selects the
\* mechanism inside importFile and what follows the import is the same for
\* both mechanisms; under "commonjs" the .js candidate is loaded by require
\* and the .mjs candidate by import(), so both branches are taken
LoadModuleTypes == {"undefined", "commonjs"}

\* values of BUILD_TYPE ("Will be set during compilation"): the CommonJS
\* build and the ES-module build
BuildTypes == {"commonjs", "module"}

\* paths the glob may yield when the filters are explored: two candidates
\* with different names
FilterPaths ==
    { [dir |-> "/r/a", base |-> "f", ext |-> ".js"],
      [dir |-> "/r/b", base |-> "k", ext |-> ".mjs"] }

\* config.filter: not set, or a pattern that matches the name f only
NameFilters == {"undefined", "f"}

\* config.filter_body: not set, or a pattern that matches the contents m only
BodyFilters == {"undefined", "m"}

\* what a test file may contain
Contents == {"m", "n"}

\* descriptions passed to test(...)
Descriptions == {"a"}

\* description passed to the n-th describe(...) call of a load: every group
\* gets a description of its own (g0, g1, ...)
GroupName(n) == "g" \o ToString(n)

\* the `options` argument of a registration: none, a skip predicate that
\* returns false, or a name
OptionsSet == { << >>, [skip |-> "retFalse"], [name |-> "x"] }

\* exports of a single-case module: {run, ...metadata}
RunModules == { [run |-> "fn", description |-> "single"] }

NoFile == [dir |-> "", base |-> "", ext |-> ""]

\* no describe variant returned in the last step
NoFrame == [variant |-> "none", description |-> "", groupsBefore |-> <<>>,
            onlyBefore |-> FALSE, skipBefore |-> FALSE]

\* the promise returned by loadTests has not rejected
NoError == [file |-> NoFile, err |-> "none"]

\* a file whose continuation has not run
NoContrib == [kind |-> "pending", result |-> <<>>, tests |-> <<>>, only |-> <<>>]

(* ------------------------------ state --------------------------------- *)
VARIABLES
    moduleType,   \* config.moduleType
    testFiles,    \* the candidates that survive the filters (set of paths)
    status,       \* per file: "pending" | "done" | "failed"
    testCases,    \* loadTests: const testCases = []
    outcome,      \* the promise returned by loadTests: "pending" | "resolved" | "rejected"
    returned,     \* value the promise resolved with
    error,        \* reason the promise rejected with
    failures,     \* rejected per-file promises, in the order they rejected
    logs,         \* files reported through output.log
    running,      \* file whose loadSuite call is executing, or NoFile
    tests,        \* loadSuite: const tests = []
    only,         \* loadSuite: const only = []
    onlyInScope,  \* loadSuite: let onlyInScope
    skipInScope,  \* loadSuite: let skipInScope
    groups,       \* loadSuite: const groups = [suiteName]
    i,            \* loadSuite: let i
    frames,       \* describe callbacks that are executing (call stack), with
                  \* the values the locals had when each was entered
    ret,          \* the describe variant that returned in the last step, if any
    described,    \* history: describe calls made so far
    regs,         \* history: per file, the leaf registrations made so far
    sawOnly,      \* history: per file, whether test.only / describe.only was called
    contrib,      \* history: per file, the module shape found, what its
                  \* continuation appended to testCases (result) and, for a suite,
                  \* the two accumulators when loadSuite returned
    buildType,    \* BUILD_TYPE of the build that is running
    filter,       \* config.filter
    filter_body,  \* config.filter_body
    phase,        \* loadTests is at: "filter" (applyTestFilters not yet run) |
                  \* "reading" (await Promise.all of the reads) |
                  \* "import" (await Promise.all of the imports) | "aborted"
    discovered,   \* history: the candidates the glob yielded
    reads,        \* per file handed to readFile: "pending" | its contents | "EIO"
    readFailures, \* rejected reads, in the order they rejected
    invoked       \* history: per file, what importFile did when it was called

vars == << moduleType, testFiles, status, testCases, outcome, returned, error,
           failures, logs, running, tests, only, onlyInScope, skipInScope,
           groups, i, frames, ret, described, regs, sawOnly, contrib,
           buildType, filter, filter_body, phase, discovered, reads,
           readFailures, invoked >>

loadVars  == << testCases, outcome, returned, error, failures, logs, status, contrib >>
suiteVars == << tests, only, onlyInScope, skipInScope, groups, i, frames, ret >>
\* what no step of the import phase changes
constVars == << moduleType, testFiles, buildType, filter, filter_body, phase,
                discovered, reads, readFailures, invoked >>

(* ----------------------------- helpers -------------------------------- *)
\* path.extname(n)
Extname(n) == n.ext

\* path.basename(n, ext)
Basename(n, ext) == IF ext = n.ext THEN n.base ELSE n.base \o n.ext

\* loadTests: testFiles.map(n => ({fileName: n, name: basename(n, extname(n))}))
Candidate(n) == [fileName |-> n, name |-> Basename(n, Extname(n))]

\* groups.join('>')
RECURSIVE Join(_)
Join(g) ==
    IF Len(g) = 0 THEN ""
    ELSE IF Len(g) = 1 THEN g[1]
    ELSE g[1] \o ">" \o Join(Tail(g))

\* mutant of CaseName: the counter is left out of the name
CaseNameNoCounter(g, n) == Join(g)

\* mutant of CaseName: the counter is incremented before it is read (++i)
CaseNamePreIncrement(g, n) == Join(g) \o "_" \o ToString(n + 1)

\* `${groups.join('>')}_${i++}`
CaseName(g, n) == Join(g) \o "_" \o ToString(n)

\* {...a, ...b}: the keys of b win
Spread(a, b) ==
    [k \in (DOMAIN a) \cup (DOMAIN b) |-> IF k \in DOMAIN b THEN b[k] ELSE a[k]]

\* options.skip (undefined when the key is absent)
OptSkip(options) == IF "skip" \in DOMAIN options THEN options["skip"] ELSE "undefined"

\* what calling a case's skip predicate yields; skipFn is () => true and an
\* undefined predicate is never called (the case is not skipped)
EvalSkip(s) == s \in {"skipFn", "retTrue"}

\* BUILD_TYPE
BUILD_TYPE == "commonjs"

\* mutant of ImportMechanism: the extension of the file is not looked at
ImportMechanismByHint(file, mt) ==
    IF mt = "undefined" THEN "assertFail"
    ELSE IF buildType = "module" \/ mt = "esm" THEN "import"
    ELSE "require"

\* importFile: which mechanism loads `file` under hint `mt`
ImportMechanism(file, mt) ==
    IF mt = "undefined" THEN "assertFail"
    ELSE IF buildType = "module" \/ mt = "esm" \/ file.ext = ".mjs" THEN "import"
    ELSE "require"

\* leaf registrations made so far in this loadTests call (bounds the model)
RECURSIVE SumLen(_, _)
SumLen(f, S) ==
    IF S = {} THEN 0
    ELSE LET x == CHOOSE y \in S : TRUE IN Len(f[x]) + SumLen(f, S \ {x})

Registrations == SumLen(regs, DOMAIN regs)

\* calls of the registration API made so far in this loadTests call
Calls == Registrations + described

\* tests.map(async t => { ... importFile(t.fileName, config.moduleType) ... }):
\* importFile is called for every surviving candidate
CallImportFile(f, survivors) ==
    IF f \in survivors THEN ImportMechanism(f, moduleType) ELSE "none"

(* ------------------------------- Init --------------------------------- *)
Init ==
    /\ moduleType \in LoadModuleTypes
    /\ testFiles \in SUBSET Paths
    /\ status = [f \in testFiles |-> "pending"]
    /\ testCases = <<>>
    /\ outcome = "pending"
    /\ returned = <<>>
    /\ error = NoError
    /\ failures = <<>>
    /\ logs = <<>>
    /\ running = NoFile
    /\ tests = <<>>
    /\ only = <<>>
    /\ onlyInScope = FALSE
    /\ skipInScope = FALSE
    /\ groups = <<>>
    /\ i = 0
    /\ frames = <<>>
    /\ ret = NoFrame
    /\ described = 0
    /\ regs = [f \in Paths |-> <<>>]
    /\ sawOnly = [f \in Paths |-> FALSE]
    /\ contrib = [f \in Paths |-> NoContrib]
    /\ buildType = BUILD_TYPE
    /\ filter = "undefined"
    /\ filter_body = "undefined"
    /\ phase = "import"
    /\ discovered = testFiles
    /\ reads = << >>
    /\ readFailures = <<>>
    /\ invoked = [f \in Paths |-> CallImportFile(f, testFiles)]

(* ------------------------- loadSuite: leaves -------------------------- *)
\* mutant of NewCase: the name is built from the root name only
NewCaseRootName(description, run, skip, options) ==
    Spread([description |-> description,
            name        |-> CaseName(<< groups[1] >>, i),
            run         |-> run,
            skip        |-> skip,
            path        |-> running],
           options)

\* the object literal pushed by test / test.only / test.skip
NewCase(description, run, skip, options) ==
    Spread([description |-> description,
            name        |-> CaseName(groups, i),
            run         |-> run,
            skip        |-> skip,
            path        |-> running],
           options)

\* const arr = onlyInScope ? only : tests
ScopeArr == IF onlyInScope THEN "only" ELSE "tests"

\* skip: skipInScope ? skipFn : options.skip
ScopeSkip(options) == IF skipInScope THEN "skipFn" ELSE OptSkip(options)

\* history record of one leaf registration
Reg(via, dest, options, case) ==
    [via     |-> via,
     dest    |-> dest,
     scope   |-> [k \in 1..Len(frames) |-> frames[k].variant],
     chain   |-> [k \in 1..Len(frames) |-> frames[k].description],
     idx     |-> i,
     options |-> options,
     case    |-> case]

\* arr.push(case); i++
Push(via, dest, options, case) ==
    /\ running # NoFile
    /\ Calls < MaxCalls
    /\ IF dest = "only"
         THEN only' = Append(only, case) /\ UNCHANGED tests
         ELSE tests' = Append(tests, case) /\ UNCHANGED only
    /\ i' = i + 1
    /\ ret' = NoFrame
    /\ regs' = [regs EXCEPT ![running] = Append(@, Reg(via, dest, options, case))]
    /\ UNCHANGED << onlyInScope, skipInScope, groups, frames, running, described >>
    /\ UNCHANGED << loadVars, constVars >>

\* test(description, run, options)
Test(description, run, options) ==
    /\ Push("test", ScopeArr, options,
            NewCase(description, run, ScopeSkip(options), options))
    /\ UNCHANGED sawOnly

\* test.only(description, run, options)
TestOnly(description, run, options) ==
    /\ Push("only", "only", options,
            NewCase(description, run, ScopeSkip(options), options))
    /\ sawOnly' = [sawOnly EXCEPT ![running] = TRUE]

\* test.skip(description, run, options)
TestSkip(description, run, options) ==
    /\ Push("skip", ScopeArr, options,
            NewCase(description, run, "skipFn", options))
    /\ UNCHANGED sawOnly

(* ------------------------- loadSuite: groups -------------------------- *)
Frame(variant, description) ==
    [variant      |-> variant,
     description  |-> description,
     groupsBefore |-> groups,
     onlyBefore   |-> onlyInScope,
     skipBefore   |-> skipInScope]

\* the part of a describe variant before `callback()`
Enter(variant, description) ==
    /\ running # NoFile
    /\ Calls < MaxCalls
    /\ described' = described + 1
    /\ groups' = Append(groups, description)
    /\ frames' = Append(frames, Frame(variant, description))
    /\ ret' = NoFrame
    /\ UNCHANGED << tests, only, i, running, regs >>
    /\ UNCHANGED << loadVars, constVars >>

\* the part of a describe variant after `callback()` returned
Leave(variant) ==
    /\ running # NoFile
    /\ Len(frames) > 0
    /\ frames[Len(frames)].variant = variant
    /\ frames' = SubSeq(frames, 1, Len(frames) - 1)
    /\ ret' = frames[Len(frames)]
    /\ UNCHANGED << tests, only, i, running, regs, sawOnly, described >>
    /\ UNCHANGED << loadVars, constVars >>

\* mutant of Pop: the group name is left on the stack
PopForgotten(g) == g

\* groups.pop()
Pop(g) == SubSeq(g, 1, Len(g) - 1)

\* describe(description, callback): groups.push(description); callback();
Describe(description) ==
    /\ Enter("describe", description)
    /\ UNCHANGED << onlyInScope, skipInScope, sawOnly >>

\* ... groups.pop()
DescribeReturn ==
    /\ Leave("describe")
    /\ groups' = Pop(groups)
    /\ UNCHANGED << onlyInScope, skipInScope >>

\* describe.only: onlyInScope = true; groups.push(description); callback();
DescribeOnly(description) ==
    /\ Enter("only", description)
    /\ onlyInScope' = TRUE
    /\ sawOnly' = [sawOnly EXCEPT ![running] = TRUE]
    /\ UNCHANGED skipInScope

\* the value describe.only assigns to onlyInScope after its callback
OnlyAfter(frame) == FALSE

\* ... onlyInScope = false; groups.pop()
DescribeOnlyReturn ==
    /\ Leave("only")
    /\ onlyInScope' = OnlyAfter(frames[Len(frames)])
    /\ groups' = Pop(groups)
    /\ UNCHANGED skipInScope

\* describe.skip: skipInScope = true; groups.push(description); callback();
DescribeSkip(description) ==
    /\ Enter("skip", description)
    /\ skipInScope' = TRUE
    /\ UNCHANGED << onlyInScope, sawOnly >>

\* the value describe.skip assigns to skipInScope after its callback
SkipAfter(frame) == FALSE

\* ... skipInScope = false; groups.pop()
DescribeSkipReturn ==
    /\ Leave("skip")
    /\ skipInScope' = SkipAfter(frames[Len(frames)])
    /\ groups' = Pop(groups)
    /\ UNCHANGED onlyInScope

(* ----------------------------- loadTests ----------------------------- *)
\* mutant of SuiteResult: the only-accumulator is ignored
SuiteResultGeneral == tests

\* return only.length > 0 ? only : tests
SuiteResult == IF Len(only) > 0 THEN only ELSE tests

\* mutant of PushAll: testCases is assigned instead of appended to
PushAllAssign(cases) == cases

\* testCases.push(...cases)
PushAll(cases) == testCases \o cases

\* mutant of Imported: importFile does not assert that a hint was passed
ImportedUnasserted(f) ==
    /\ running = NoFile
    /\ f \in testFiles
    /\ status[f] = "pending"

\* the continuation of `await importFile(...)` may run for file f
Imported(f) ==
    /\ running = NoFile
    /\ f \in testFiles
    /\ status[f] = "pending"
    /\ ImportMechanism(f, moduleType) # "assertFail"

\* mutant of FreshCounter: the counter is shared by all loadSuite calls
StaleCounter == i

\* loadSuite: let i = 0
FreshCounter == 0

\* typeof tc.suite === 'function': loadSuite(t.fileName, t.name, tc.suite)
\* starts, up to the call builder(test, describe)
LoadSuiteCall(f) ==
    /\ Imported(f)
    /\ running' = f
    /\ tests' = <<>>
    /\ only' = <<>>
    /\ onlyInScope' = FALSE
    /\ skipInScope' = FALSE
    /\ groups' = << Candidate(f).name >>
    /\ i' = FreshCounter
    /\ frames' = <<>>
    /\ ret' = NoFrame
    /\ UNCHANGED << described, regs, sawOnly, loadVars, constVars >>

\* builder(test, describe) returned: loadSuite returns and its cases are pushed
LoadSuiteReturn ==
    /\ running # NoFile
    /\ frames = <<>>
    /\ testCases' = PushAll(SuiteResult)
    /\ contrib' = [contrib EXCEPT ![running] =
                      [kind |-> "suite", result |-> SuiteResult,
                       tests |-> tests, only |-> only]]
    /\ status' = [status EXCEPT ![running] = "done"]
    /\ running' = NoFile
    /\ ret' = NoFrame
    /\ UNCHANGED << tests, only, onlyInScope, skipInScope, groups, i, frames >>
    /\ UNCHANGED << described, regs, sawOnly, outcome, returned, error,
                    failures, logs, constVars >>

\* typeof tc.run === 'function': {...tc, name: t.name, fileName: t.fileName}
LoadRunCase(f, tc) ==
    /\ Imported(f)
    /\ LET case == Spread(tc, Candidate(f))
       IN /\ testCases' = PushAll(<< case >>)
          /\ contrib' = [contrib EXCEPT ![f] =
                            [kind |-> "run", result |-> << case >>,
                             tests |-> <<>>, only |-> <<>>]]
    /\ status' = [status EXCEPT ![f] = "done"]
    /\ UNCHANGED << outcome, returned, error, failures, logs, running,
                    suiteVars, described, regs, sawOnly, constVars >>

\* neither shape: output.log(... `No tests found in file ...`)
LoadNoTests(f) ==
    /\ Imported(f)
    /\ logs' = Append(logs, f)
    /\ contrib' = [contrib EXCEPT ![f] =
                      [kind |-> "none", result |-> <<>>,
                       tests |-> <<>>, only |-> <<>>]]
    /\ status' = [status EXCEPT ![f] = "done"]
    /\ UNCHANGED << testCases, outcome, returned, error, failures, running,
                    suiteVars, described, regs, sawOnly, constVars >>

\* importFile(t.fileName, config.moduleType) rejects: the assert on the
\* module type, or the load itself (syntax error, throwing top-level code)
ImportFails(f) ==
    /\ running = NoFile
    /\ f \in testFiles
    /\ status[f] = "pending"
    /\ failures' = Append(failures,
          [file |-> f,
           err  |-> IF ImportMechanism(f, moduleType) = "assertFail"
                      THEN "AssertionError" ELSE "LoadError"])
    /\ status' = [status EXCEPT ![f] = "failed"]
    /\ UNCHANGED << testCases, outcome, returned, error, logs, contrib, running,
                    suiteVars, described, regs, sawOnly, constVars >>

\* mutant of AllFulfilled: the join waits for settlement only (allSettled)
AllSettled == \A f \in testFiles : status[f] # "pending"

\* Promise.all over the per-file promises: may it fulfil?
AllFulfilled == \A f \in testFiles : status[f] = "done"

\* await Promise.all(...) fulfilled; return testCases
LoadTestsResolve ==
    /\ running = NoFile
    /\ phase = "import"
    /\ outcome = "pending"
    /\ AllFulfilled
    /\ outcome' = "resolved"
    /\ returned' = testCases
    /\ UNCHANGED << testCases, error, failures, logs, status, contrib, running,
                    suiteVars, described, regs, sawOnly, constVars >>

\* mutant of LoadTestsReject: the rejection is swallowed and the cases
\* pushed so far are returned
LoadTestsRejectSwallowed ==
    /\ running = NoFile
    /\ phase = "import"
    /\ outcome = "pending"
    /\ Len(failures) > 0
    /\ outcome' = "resolved"
    /\ returned' = testCases
    /\ UNCHANGED << testCases, error, failures, logs, status, contrib, running,
                    suiteVars, described, regs, sawOnly, constVars >>

\* await Promise.all(...) rejected with the first rejection: loadTests throws
LoadTestsReject ==
    /\ running = NoFile
    /\ phase = "import"
    /\ outcome = "pending"
    /\ Len(failures) > 0
    /\ outcome' = "rejected"
    /\ error' = failures[1]
    /\ UNCHANGED << testCases, returned, failures, logs, status, contrib, running,
                    suiteVars, described, regs, sawOnly, constVars >>

(* ------------------------------- Next --------------------------------- *)
Next ==
    \/ \E f \in testFiles : LoadSuiteCall(f)
    \/ \E d \in Descriptions, o \in OptionsSet : Test(d, "fn", o)
    \/ \E d \in Descriptions, o \in OptionsSet : TestOnly(d, "fn", o)
    \/ \E d \in Descriptions, o \in OptionsSet : TestSkip(d, "fn", o)
    \/ Describe(GroupName(described))
    \/ DescribeReturn
    \/ DescribeOnly(GroupName(described))
    \/ DescribeOnlyReturn
    \/ DescribeSkip(GroupName(described))
    \/ DescribeSkipReturn
    \/ LoadSuiteReturn
    \/ \E f \in testFiles, tc \in RunModules : LoadRunCase(f, tc)
    \/ \E f \in testFiles : LoadNoTests(f)
    \/ \E f \in testFiles : ImportFails(f)
    \/ LoadTestsResolve
    \/ LoadTestsReject

Spec == Init /\ [][Next]_vars

\* one loadSuite run: loadTests with a single candidate, loaded by require
\* (the .js candidate) or by import() (the .mjs candidate)
SuiteInit ==
    /\ Init
    /\ moduleType = "commonjs"
    /\ Cardinality(testFiles) = 1

SuiteSpec == SuiteInit /\ [][Next]_vars

\* two loadSuite runs under the same root name: loadTests with both
\* candidates of Paths, whose imports are in flight together
TwiceInit ==
    /\ Init
    /\ moduleType = "commonjs"
    /\ testFiles = Paths

\* both candidates export a suite function
TwiceNext ==
    \/ \E f \in testFiles : LoadSuiteCall(f)
    \/ \E d \in Descriptions, o \in OptionsSet : Test(d, "fn", o)
    \/ \E d \in Descriptions, o \in OptionsSet : TestOnly(d, "fn", o)
    \/ \E d \in Descriptions, o \in OptionsSet : TestSkip(d, "fn", o)
    \/ Describe(GroupName(described))
    \/ DescribeReturn
    \/ DescribeOnly(GroupName(described))
    \/ DescribeOnlyReturn
    \/ DescribeSkip(GroupName(described))
    \/ DescribeSkipReturn
    \/ LoadSuiteReturn
    \/ LoadTestsResolve

TwiceSpec == TwiceInit /\ [][TwiceNext]_vars

\* the merge of the per-file results: any candidates and hint, with
\* builders that register cases by test and test.only outside groups
MergeNext ==
    \/ \E f \in testFiles : LoadSuiteCall(f)
    \/ \E d \in Descriptions : Test(d, "fn", << >>)
    \/ \E d \in Descriptions : TestOnly(d, "fn", << >>)
    \/ LoadSuiteReturn
    \/ \E f \in testFiles, tc \in RunModules : LoadRunCase(f, tc)
    \/ \E f \in testFiles : LoadNoTests(f)
    \/ \E f \in testFiles : ImportFails(f)
    \/ LoadTestsResolve
    \/ LoadTestsReject

MergeSpec == Init /\ [][MergeNext]_vars

(* ------------------- loadTests with its filter phase ------------------ *)
\* new RegExp(re).test(s), for the patterns of NameFilters and BodyFilters
\* (a single literal character) and one-character subjects
RegExpTest(re, s) == re = s

\* mutant of NameFiltered: the name filter is not applied
NameFilterSkipped(cands) == cands

\* if (config.filter) tests = tests.filter(n => new RegExp(config.filter).test(n.name))
NameFiltered(cands) ==
    IF filter = "undefined" THEN cands
    ELSE { f \in cands : RegExpTest(filter, Candidate(f).name) }

\* (await Promise.all(... bodyFilterRe.test(contents) ? test : null)).filter(t => t)
BodyFiltered(cands) == { f \in cands : RegExpTest(filter_body, reads[f]) }

\* loadTests after `tests = await applyTestFilters(config, tests)`:
\* tests.map(async t => { let tc = await importFile(...) ... }) calls
\* importFile for every surviving candidate
StartImports(survivors) ==
    /\ phase' = "import"
    /\ status' = [f \in DOMAIN status |->
                     IF f \in survivors THEN "pending" ELSE status[f]]
    /\ invoked' = [f \in DOMAIN invoked |-> CallImportFile(f, survivors)]

\* applyTestFilters up to its first await: the name filter, then either the
\* reads of the remaining candidates are started or the candidates are returned
ApplyTestFilters ==
    /\ phase = "filter"
    /\ testFiles' = NameFiltered(testFiles)
    /\ IF filter_body = "undefined"
         THEN /\ StartImports(testFiles')
              /\ UNCHANGED reads
         ELSE /\ phase' = "reading"
              /\ reads' = [f \in NameFiltered(testFiles) |-> "pending"]
              /\ UNCHANGED << status, invoked >>
    /\ UNCHANGED << testCases, outcome, returned, error, failures, logs, contrib,
                    running, suiteVars, described, regs, sawOnly, moduleType,
                    buildType, filter, filter_body, discovered, readFailures >>

\* fs.promises.readFile(test.fileName, ...) fulfils with the contents
ReadFulfils(f, contents) ==
    /\ phase \in {"reading", "aborted"}
    /\ f \in DOMAIN reads
    /\ reads[f] = "pending"
    /\ reads' = [reads EXCEPT ![f] = contents]
    /\ UNCHANGED << loadVars, running, suiteVars, described, regs, sawOnly,
                    moduleType, testFiles, buildType, filter, filter_body, phase,
                    discovered, readFailures, invoked >>

\* fs.promises.readFile(test.fileName, ...) rejects (I/O error)
ReadFails(f) ==
    /\ phase \in {"reading", "aborted"}
    /\ f \in DOMAIN reads
    /\ reads[f] = "pending"
    /\ reads' = [reads EXCEPT ![f] = "EIO"]
    /\ readFailures' = Append(readFailures, [file |-> f, err |-> "EIO"])
    /\ UNCHANGED << loadVars, running, suiteVars, described, regs, sawOnly,
                    moduleType, testFiles, buildType, filter, filter_body, phase,
                    discovered, invoked >>

\* mutant of AllRead: a failed read counts as finished (the file is dropped)
AllReadSettled == \A f \in DOMAIN reads : reads[f] # "pending"

\* Promise.all over the reads: may it fulfil?
AllRead == \A f \in DOMAIN reads : reads[f] \in Contents

\* Promise.all over the reads fulfilled: the body filter is applied,
\* applyTestFilters returns and loadTests starts the imports
FiltersResolve ==
    /\ phase = "reading"
    /\ AllRead
    /\ testFiles' = BodyFiltered(testFiles)
    /\ StartImports(testFiles')
    /\ UNCHANGED << testCases, outcome, returned, error, failures, logs, contrib,
                    running, suiteVars, described, regs, sawOnly, moduleType,
                    buildType, filter, filter_body, discovered, reads,
                    readFailures >>

\* Promise.all over the reads rejected with the first rejection:
\* applyTestFilters throws, and so does loadTests
FiltersReject ==
    /\ phase = "reading"
    /\ Len(readFailures) > 0
    /\ phase' = "aborted"
    /\ outcome' = "rejected"
    /\ error' = readFailures[1]
    /\ UNCHANGED << testCases, returned, failures, logs, status, contrib,
                    running, suiteVars, described, regs, sawOnly, moduleType,
                    testFiles, buildType, filter, filter_body, discovered, reads,
                    readFailures, invoked >>

\* require(file) returned null or undefined (module.exports = null):
\* `typeof tc.suite` throws a TypeError.  Under import() the namespace
\* object is returned instead (m.default ? m.default : m)
LoadNullExports(f) ==
    /\ Imported(f)
    /\ invoked[f] = "require"
    /\ failures' = Append(failures, [file |-> f, err |-> "TypeError"])
    /\ contrib' = [contrib EXCEPT ![f] =
                      [kind |-> "null", result |-> <<>>,
                       tests |-> <<>>, only |-> <<>>]]
    /\ status' = [status EXCEPT ![f] = "failed"]
    /\ UNCHANGED << testCases, outcome, returned, error, logs, running,
                    suiteVars, described, regs, sawOnly, constVars >>

\* builder(test, describe) throws: loadSuite throws and the per-file
\* promise rejects
BuilderThrows ==
    /\ running # NoFile
    /\ failures' = Append(failures, [file |-> running, err |-> "BuilderError"])
    /\ status' = [status EXCEPT ![running] = "failed"]
    /\ running' = NoFile
    /\ frames' = <<>>
    /\ ret' = NoFrame
    /\ UNCHANGED << tests, only, onlyInScope, skipInScope, groups, i >>
    /\ UNCHANGED << testCases, outcome, returned, error, logs, contrib,
                    described, regs, sawOnly, constVars >>

\* loadTests after `await glob(...)` and the map to candidates
LoadInit ==
    /\ moduleType \in ModuleTypes
    /\ buildType \in BuildTypes
    /\ filter \in NameFilters
    /\ filter_body \in BodyFilters
    /\ discovered \in SUBSET FilterPaths
    /\ testFiles = discovered
    /\ phase = "filter"
    /\ reads = << >>
    /\ readFailures = <<>>
    /\ status = [f \in FilterPaths |-> "unstarted"]
    /\ invoked = [f \in FilterPaths |-> "none"]
    /\ testCases = <<>>
    /\ outcome = "pending"
    /\ returned = <<>>
    /\ error = NoError
    /\ failures = <<>>
    /\ logs = <<>>
    /\ running = NoFile
    /\ tests = <<>>
    /\ only = <<>>
    /\ onlyInScope = FALSE
    /\ skipInScope = FALSE
    /\ groups = <<>>
    /\ i = 0
    /\ frames = <<>>
    /\ ret = NoFrame
    /\ described = 0
    /\ regs = [f \in FilterPaths |-> <<>>]
    /\ sawOnly = [f \in FilterPaths |-> FALSE]
    /\ contrib = [f \in FilterPaths |-> NoContrib]

\* the builders of this specification register plain cases only
LoadNext ==
    \/ ApplyTestFilters
    \/ \E f \in FilterPaths, c \in Contents : ReadFulfils(f, c)
    \/ \E f \in FilterPaths : ReadFails(f)
    \/ FiltersResolve
    \/ FiltersReject
    \/ \E f \in testFiles : LoadSuiteCall(f)
    \/ \E d \in Descriptions : Test(d, "fn", << >>)
    \/ BuilderThrows
    \/ LoadSuiteReturn
    \/ \E f \in testFiles, tc \in RunModules : LoadRunCase(f, tc)
    \/ \E f \in testFiles : LoadNoTests(f)
    \/ \E f \in testFiles : LoadNullExports(f)
    \/ \E f \in testFiles : ImportFails(f)
    \/ LoadTestsResolve
    \/ LoadTestsReject

LoadSpec == LoadInit /\ [][LoadNext]_vars

\* the event loop runs every continuation that is ready: the synchronous
\* start of applyTestFilters, the continuations of the two Promise.all
\* joins, and the rest of a loadSuite call once it has started (builders
\* terminate).  Whether a read or an import settles is up to the environment
LoadFairness ==
    /\ WF_vars(ApplyTestFilters)
    /\ WF_vars(FiltersResolve)
    /\ WF_vars(FiltersReject)
    /\ WF_vars(LoadSuiteReturn)
    /\ WF_vars(LoadTestsResolve)
    /\ WF_vars(LoadTestsReject)

LiveLoadSpec == LoadInit /\ [][LoadNext]_vars /\ LoadFairness

(* ======================= properties of loadSuite ====================== *)
\* the cases file f registered into accumulator dest, in registration order
Accumulated(f, dest) ==
    LET R == SelectSeq(regs[f], LAMBDA r : r.dest = dest)
    IN  [k \in 1..Len(R) |-> R[k].case]

\* registration r was made by test.only or inside the callback of a describe.only
InOnlyScope(r) == r.via = "only" \/ \E k \in 1..Len(r.scope) : r.scope[k] = "only"

\* registration r was made inside the callback of a describe.skip
InSkipScope(r) == \E k \in 1..Len(r.scope) : r.scope[k] = "skip"

\* the files whose loadSuite call has returned
SuiteFiles == { f \in Paths : contrib[f].kind = "suite" }

\* all registrations made so far
AllRegs == UNION { { regs[f][k] : k \in 1..Len(regs[f]) } : f \in Paths }

\* C1 as stated: if any .only registration (test.only or describe.only) was
\* called in the file, loadSuite returns exactly the only-accumulator, holding
\* no case registered outside an only scope; otherwise the general accumulator.
C1_AnyOnlyCallRestricts ==
    \A f \in SuiteFiles :
        IF sawOnly[f]
          THEN /\ contrib[f].result = Accumulated(f, "only")
               /\ \A k \in 1..Len(regs[f]) :
                     regs[f][k].dest = "only" => InOnlyScope(regs[f][k])
          ELSE contrib[f].result = Accumulated(f, "tests")

\* C1 amended: if at least one case was registered into the only-accumulator
\* (by test.only, or by test / test.skip while the only-flag was set),
\* loadSuite returns exactly the only-accumulated cases, none of them
\* registered outside an only scope; otherwise (also when describe.only was
\* called but no case was accumulated under it) it returns the general
\* accumulator.
C1_OnlyAccumulatorDecides ==
    \A f \in SuiteFiles :
        IF \E k \in 1..Len(regs[f]) : regs[f][k].dest = "only"
          THEN /\ contrib[f].result = Accumulated(f, "only")
               /\ \A k \in 1..Len(regs[f]) :
                     regs[f][k].dest = "only" => InOnlyScope(regs[f][k])
          ELSE contrib[f].result = Accumulated(f, "tests")

\* a suite returned its only-accumulator while cases sat in the general one
C1_Witness ==
    \E f \in SuiteFiles :
        /\ contrib[f].only # <<>>
        /\ contrib[f].tests # <<>>
        /\ contrib[f].result = contrib[f].only

\* C2 as stated: every case registered by test or test.only while a
\* describe.skip callback is executing, at any depth, has a skip predicate
\* that evaluates to true, whatever `skip` option the call passed.
C2_SkipGroupForcesSkip ==
    \A r \in AllRegs :
        (r.via \in {"test", "only"} /\ InSkipScope(r)) => EvalSkip(r.case.skip)

\* C3 as stated: when a describe.only callback returns, the only-flag has the
\* value it had before that describe.only call, and a plain test call made
\* inside a describe.only callback (also after a nested describe.only
\* returned) is routed to the only-accumulator.
C3_OnlyFlagRestored ==
    /\ ret.variant = "only" => onlyInScope = ret.onlyBefore
    /\ \A r \in AllRegs : (r.via = "test" /\ InOnlyScope(r)) => r.dest = "only"

\* C4 as stated, for the registrations that pass no skip option of their own
\* (so that only the flag decides): when a describe.skip callback returns, the
\* skip-flag has the value it had before that call; cases registered inside a
\* describe.skip (also after a nested describe.skip returned) get the
\* always-true predicate, and cases registered outside every describe.skip
\* do not get it.
C4_SkipFlagRestored ==
    /\ ret.variant = "skip" => skipInScope = ret.skipBefore
    /\ \A r \in AllRegs :
          (r.via \in {"test", "only"} /\ "skip" \notin DOMAIN r.options) =>
              (r.case.skip = "skipFn") = InSkipScope(r)

\* C5 as stated: every case registered with test.skip has a skip predicate
\* that evaluates to true, whatever the skip-flag and the passed `skip` option.
C5_TestSkipAlwaysSkips ==
    \A r \in AllRegs : r.via = "skip" => EvalSkip(r.case.skip)

\* the name loadSuite computes for registration r of file f: the root name and
\* the descriptions of the groups enclosing the call, joined by '>', then '_'
\* and the counter
LexicalName(f, r) == CaseName(<< Candidate(f).name >> \o r.chain, r.idx)

StackMatchesFrames ==
    running # NoFile =>
        groups = << Candidate(running).name >>
                    \o [k \in 1..Len(frames) |-> frames[k].description]

FileOf(c) == IF "path" \in DOMAIN c THEN c.path ELSE c.fileName

\* the cases of file f in list cs, in the order of cs
FromFile(cs, f) == SelectSeq(cs, LAMBDA c : FileOf(c) = f)

\* C6 as stated: no two cases of the list loadTests returns have the same name.
C6_NamesUnique ==
    outcome = "resolved" =>
        \A a, b \in 1..Len(returned) :
            a # b => returned[a].name # returned[b].name

\* C9: in the list loadTests returns, the cases of each file are exactly that
\* file's contribution in the order its continuation produced them, whatever
\* the order in which the imports completed, and the list holds nothing else
\* (its length is the sum of the contributions' lengths).
C9_PerFileOrderKept ==
    outcome = "resolved" =>
        /\ \A f \in Paths : FromFile(returned, f) = contrib[f].result
        /\ Len(returned) = SumLen([f \in Paths |-> contrib[f].result], Paths)

\* loadTests resolved with a two-case suite that completed after another
\* file's case
C9_Witness ==
    /\ outcome = "resolved"
    /\ Len(returned) = 3
    /\ \E f \in Paths : Len(contrib[f].result) = 2 /\ FileOf(returned[1]) # f
                        /\ contrib[f].result[1] # contrib[f].result[2]

\* C10: if the import of a candidate failed, loadTests does not resolve and
\* returns no case, whatever other files pushed before or after the failure;
\* when it settles it is rejected, with the error of the first import that
\* failed.
C10_ImportFailureRejects ==
    /\ Len(failures) > 0 =>
          /\ outcome # "resolved"
          /\ returned = <<>>
    /\ outcome = "rejected" =>
          /\ Len(failures) > 0
          /\ error = failures[1]
    /\ (Len(failures) > 0 /\ outcome = "pending" /\ running = NoFile) =>
          ENABLED LoadTestsReject

\* loadTests rejected on a failed load while testCases holds the cases that
\* another file pushed, and returned none of them
C10_Witness ==
    /\ outcome = "rejected"
    /\ error.err = "LoadError"
    /\ testCases # <<>>
    /\ returned = <<>>

(* ================= properties of loadTests with filters =============== *)
\* the files of FilterPaths whose loaded module has neither a suite nor a run
\* function: an object without them (kind "none") or no object at all ("null")
NoTestsFiles == { f \in FilterPaths : contrib[f].kind \in {"none", "null"} }

\* number of diagnostics logged for file f
Diagnostics(f) == Len(SelectSeq(logs, LAMBDA x : x = f))

\* C11 as stated: for every loaded module that exposes neither a suite nor a
\* run function, loadTests contributes no case for the file, logs exactly one
\* diagnostic for it, and the file does not fail the call (its per-file
\* promise is fulfilled, so the call can still resolve with the other cases).
C11_NoTestsFileIsSkipped ==
    \A f \in NoTestsFiles :
        /\ FromFile(testCases, f) = <<>>
        /\ Diagnostics(f) = 1
        /\ status[f] = "done"
        /\ \A k \in 1..Len(failures) : failures[k].file # f

\* C12: once the read of a remaining candidate has failed during body
\* filtering, importFile is never called for any file, the body filter is
\* never applied without that file, loadTests can reject and cannot resolve,
\* and when it has rejected the reason is the read error that rejected first.
C12_ReadFailureAborts ==
    Len(readFailures) > 0 =>
        /\ phase \in {"reading", "aborted"}
        /\ \A f \in FilterPaths : status[f] = "unstarted" /\ invoked[f] = "none"
        /\ testFiles = NameFiltered(discovered)
        /\ testCases = <<>>
        /\ phase = "reading" => ENABLED FiltersReject
        /\ phase = "aborted" => outcome = "rejected"
        /\ outcome # "resolved"
        /\ outcome = "rejected" =>
              /\ error = readFailures[1]
              /\ reads[error.file] = "EIO"

\* loadTests rejected with the read error of one candidate although the read
\* of another candidate succeeded
C12_Witness ==
    /\ outcome = "rejected"
    /\ error.err = "EIO"
    /\ \E g \in DOMAIN reads : reads[g] \in Contents

(* ================ properties of loadSuite invocations ================= *)
\* what the builder of file f passed to its leaf registrations, in order
Inputs(f) ==
    [k \in 1..Len(regs[f]) |->
        [via         |-> regs[f][k].via,
         description |-> regs[f][k].case.description,
         options     |-> regs[f][k].options,
         chain       |-> regs[f][k].chain]]

\* what loadSuite made of the registrations of file f: names, descriptions
\* and accumulator of each case
Outputs(f) ==
    [k \in 1..Len(regs[f]) |->
        [name        |-> regs[f][k].case.name,
         description |-> regs[f][k].case.description,
         dest        |-> regs[f][k].dest]]

\* names and descriptions of a case list
NamesAndDescriptions(cs) ==
    [k \in 1..Len(cs) |-> [name |-> cs[k].name, description |-> cs[k].description]]

\* every registration of file f was made outside all groups, where neither
\* flag is set, so that Inputs(f) is all of the builder that reaches a case
TopLevelOnly(f) == \A k \in 1..Len(regs[f]) : regs[f][k].chain = <<>>

RuleMechanism(f) ==
    IF buildType = "module" \/ moduleType = "esm" \/ f.ext = ".mjs"
      THEN "import" ELSE "require"

C15_NoHintFails ==
    moduleType = "undefined" =>
        /\ \A f \in FilterPaths : invoked[f] \in {"none", "assertFail"}
        /\ \A f \in testFiles :
              phase = "import" =>
                  /\ invoked[f] = "assertFail"
                  /\ status[f] \in {"pending", "failed"}
                  /\ status[f] = "pending" => ENABLED ImportFails(f)
        /\ \A k \in 1..Len(failures) : failures[k].err = "AssertionError"
        /\ testCases = <<>> /\ logs = <<>> /\ returned = <<>>
        /\ (phase = "import" /\ testFiles # {}) => outcome # "resolved"
        /\ (Len(failures) > 0 /\ outcome = "pending") => ENABLED LoadTestsReject
        /\ (outcome = "rejected" /\ phase = "import") =>
              error.err = "AssertionError"

\* without a hint, a candidate survived both filters and loadTests rejected
\* with the assertion error of its import
C15_Witness ==
    /\ moduleType = "undefined"
    /\ filter # "undefined"
    /\ filter_body # "undefined"
    /\ outcome = "rejected"
    /\ error.err = "AssertionError"
    /\ error.file \in testFiles
    /\ reads[error.file] \in Contents

(* ===================== properties of the case names =================== *)
\* the counter of the running loadSuite call counts its leaf registrations
\* from 0: the k-th one read the value k - 1
CounterCountsLeaves ==
    /\ running # NoFile => i = Len(regs[running])
    /\ \A f \in Paths : \A k \in 1..Len(regs[f]) : regs[f][k].idx = k - 1

\* the builder of file f made the registrations of
\* test('a', fn); describe('g', () => { test.only('b', fn); })
ScenarioB(f) ==
    /\ f \in SuiteFiles
    /\ Len(regs[f]) = 2
    /\ regs[f][1].via = "test" /\ regs[f][1].scope = <<>>
    /\ regs[f][1].options = << >>
    /\ regs[f][2].via = "only" /\ regs[f][2].scope = << "describe" >>
    /\ regs[f][2].options = << >>

\* what loadSuite must return for ScenarioB: exactly one case, <root>>g_1
ScenarioBResult(f) ==
    /\ Len(contrib[f].result) = 1
    /\ contrib[f].result[1].name =
          Candidate(f).name \o ">" \o regs[f][2].chain[1] \o "_1"
    /\ contrib[f].result[1] = regs[f][2].case

MatchesName(f) == filter = "undefined" \/ RegExpTest(filter, Candidate(f).name)

\* candidate f was read and its contents pass the body filter, if one is
\* configured
MatchesBody(f) ==
    filter_body = "undefined"
        \/ (f \in DOMAIN reads /\ RegExpTest(filter_body, reads[f]))

\* C17: only candidates that pass the name filter are ever read, and only
\* when a body filter is configured; once the reads have been started they
\* are the reads of exactly the candidates that passed the name filter; a
\* read error that fails the load is the error of a candidate whose name
\* matches; and the candidates handed to the import phase are exactly the
\* globbed candidates that match both configured filters.
C17_NameFilterBeforeBodyFilter ==
    /\ \A f \in DOMAIN reads :
          f \in discovered /\ MatchesName(f) /\ filter_body # "undefined"
    /\ (phase # "filter" /\ filter_body # "undefined") =>
          DOMAIN reads = { f \in discovered : MatchesName(f) }
    /\ \A k \in 1..Len(readFailures) : MatchesName(readFailures[k].file)
    /\ outcome = "rejected" => (error.err = "EIO" => MatchesName(error.file))
    /\ phase \in {"reading", "aborted"} =>
          testFiles = { f \in discovered : MatchesName(f) }
    /\ phase = "import" =>
          testFiles = { f \in discovered : MatchesName(f) /\ MatchesBody(f) }

\* with both filters configured and both candidates globbed, the candidate
\* whose name does not match was never read, the other one was read, matched
\* and was loaded, and loadTests resolved with its case
C17_Witness ==
    /\ filter # "undefined"
    /\ filter_body # "undefined"
    /\ discovered = FilterPaths
    /\ \E f \in FilterPaths : f \notin DOMAIN reads /\ ~MatchesName(f)
    /\ \E f \in FilterPaths : f \in DOMAIN reads /\ testFiles = {f}
    /\ outcome = "resolved"
    /\ Len(returned) = 1

(* ===================== properties of the two joins ==================== *)
\* the read of file f has been started and has not settled
ReadPending(f) == f \in DOMAIN reads /\ reads[f] = "pending"

\* importFile was called for f and the per-file load has not completed
LoadPending(f) == status[f] = "pending"

\* every body-filter read and every per-file load that is started settles
LoadsSettle ==
    \A f \in FilterPaths :
        /\ ReadPending(f) ~> ~ReadPending(f)
        /\ LoadPending(f) ~> ~LoadPending(f)

\* errors with which importFile itself rejects
ImportErrors == {"AssertionError", "LoadError"}

\* no read and no import has failed
NoReadOrImportFailed ==
    /\ readFailures = <<>>
    /\ \A k \in 1..Len(failures) : failures[k].err \notin ImportErrors

\* no read and no per-file load (the import, or what loadTests does with
\* the imported module) has failed
NoLoadFailed == readFailures = <<>> /\ failures = <<>>

\* loadTests has resolved only if every read and every per-file load of a
\* surviving candidate has completed, and has rejected only if one failed
SettledOnlyAfterLoads ==
    /\ outcome = "resolved" =>
          /\ phase = "import"
          /\ running = NoFile
          /\ \A f \in DOMAIN reads : ~ReadPending(f)
          /\ \A f \in testFiles : status[f] = "done"
          /\ returned = testCases
    /\ outcome = "rejected" => ~NoLoadFailed
    /\ (NoLoadFailed /\ \E f \in testFiles : LoadPending(f)) => outcome = "pending"

\* C18 as stated: when loadTests has settled, it has resolved exactly when no
\* read and no import failed.
C18_ResolvedUnlessReadOrImportFailed ==
    outcome # "pending" => (outcome = "resolved" <=> NoReadOrImportFailed)

\* C18 amended: loadTests resolves only after every read and per-file load
\* has completed; when it has settled, it has resolved exactly when no read
\* and no per-file load failed; while none has failed and some load is
\* pending it stays pending; and if every read and every per-file load
\* settles, loadTests settles.
C18_SettlesWhenLoadsSettle ==
    /\ [](SettledOnlyAfterLoads
            /\ (outcome # "pending" => (outcome = "resolved" <=> NoLoadFailed)))
    /\ (LoadsSettle => <>(outcome # "pending"))

\* loadTests resolved with the cases of both candidates after both reads and
\* both per-file loads completed
C18_Witness ==
    /\ outcome = "resolved"
    /\ filter_body # "undefined"
    /\ Cardinality(DOMAIN reads) = 2
    /\ Cardinality(testFiles) = 2
    /\ Len(returned) >= 2

(* ================ properties of the two accumulators ================== *)
\* no registration of file f so far passed a `name` option
NoNameOption(f) ==
    \A k \in 1..Len(regs[f]) : "name" \notin DOMAIN regs[f][k].options

\* case c is an element of list cs
InList(c, cs) == \E k \in 1..Len(cs) : cs[k] = c

\* after n leaf registrations regsOf, general accumulator t and
\* only-accumulator o hold each registered case exactly once between them,
\* under pairwise distinct names
Partitioned(regsOf, t, o) ==
    /\ Len(t) + Len(o) = Len(regsOf)
    /\ \A k \in 1..Len(regsOf) :
          InList(regsOf[k].case, t) # InList(regsOf[k].case, o)
    /\ \A a, b \in 1..Len(t \o o) :
          a # b => (t \o o)[a].name # (t \o o)[b].name

\* C19: while a builder whose registrations carry no `name` option runs,
\* the counter equals the size of the general accumulator plus the size of
\* the only-accumulator, each registered case is in exactly one of the two,
\* and all names in both are pairwise distinct; the same holds of the two
\* accumulators when loadSuite returns.
C19_CounterAndDistinctNames ==
    /\ (running # NoFile /\ NoNameOption(running)) =>
          /\ i = Len(tests) + Len(only)
          /\ Partitioned(regs[running], tests, only)
    /\ \A f \in SuiteFiles :
          NoNameOption(f) => Partitioned(regs[f], contrib[f].tests, contrib[f].only)

\* a running builder has registered three cases without `name` option, one
\* into the general accumulator and two into the only-accumulator
C19_Witness ==
    /\ running # NoFile
    /\ NoNameOption(running)
    /\ i = 3
    /\ Len(tests) = 1
    /\ Len(only) = 2

(* ================= frame property of the group variants =============== *)
\* the innermost group whose callback is executing is of this variant
InnermostIs(variant) == Len(frames) > 0 /\ frames[Len(frames)].variant = variant

\* the case test('a', fn, options) would register now is skipped when run
WouldSkip(options) == EvalSkip(NewCase("a", "fn", ScopeSkip(options), options).skip)

\* C20 as stated: when the callback of a plain describe has returned both
\* flags are what they were before the call, after describe.only the
\* skip-flag is, after describe.skip the only-flag is; so right after a
\* describe.skip nested in a describe.only has returned a test call is
\* routed to the only-accumulator, and right after a describe.only nested in
\* a describe.skip has returned the case of a test call is skipped.
C20_VariantsLeaveOtherFlag ==
    /\ ret.variant = "describe" =>
          (onlyInScope = ret.onlyBefore /\ skipInScope = ret.skipBefore)
    /\ ret.variant = "only" => skipInScope = ret.skipBefore
    /\ ret.variant = "skip" => onlyInScope = ret.onlyBefore
    /\ (ret.variant = "skip" /\ InnermostIs("only")) => ScopeArr = "only"
    /\ (ret.variant = "only" /\ InnermostIs("skip")) =>
          \A o \in OptionsSet : WouldSkip(o)

====
